---- MODULE Spec2Model ----
(***************************************************************************)
(* Reachable-function analysis of oh::ReachableFunctions                   *)
(* (src/src/ReachableFunctions.cpp): the direct call-graph walk, the       *)
(* signature index, the per-call-site resolution of indirect targets and   *)
(* callback arguments, the work-list closure and the "reachables" pass     *)
(* that drives them from main.                                             *)
(***************************************************************************)
EXTENDS Integers, Sequences, FiniteSets, TLC

(***************************************************************************)
(* The program model: an llvm::Module and the llvm::CallGraph built for it *)
(***************************************************************************)

\* Total number of call instructions (CallInst / InvokeInst) in a module.
MaxSites == 2

\* The functions a module may hold, by name.
Funcs == {"main", "foo", "bar"}

\* A null llvm::Function* (no static callee, the external call-graph node,
\* or M.getFunction("main") finding nothing).
NoFunc == "null"

\* llvm::FunctionType values.  NoType: the type of a value is no function
\* type.  CalledTypes: the types calls go through and arguments have: the
\* type of foo and bar, and a function type that no function has.
NoType == "none"
CalledTypes == {"void(i32)", "i8*(i8*)"}

\* F.getFunctionType(): function types are uniqued, so equality of the
\* model's values is pointer equality of llvm::FunctionType*.
getFunctionType(F) == IF F = "main" THEN "i32()" ELSE "void(i32)"

\* One argument operand of a call: a direct reference to a function
\* (fn # NoFunc), or a value whose static type is a function type
\* (fty # NoType).
FnArg(G) == [fn |-> G, fty |-> NoType]
TypedArg(T) == [fn |-> NoFunc, fty |-> T]
ArgValues == {FnArg(G) : G \in Funcs \ {"main"}} \cup {TypedArg(T) : T \in CalledTypes}

\* A call instruction: callee is getCalledFunction() (NoFunc when the call
\* goes through a function-typed value), ftype is getFunctionType() of the
\* call, args its argument operands.
DirectCall(G, as) == [callee |-> G, ftype |-> getFunctionType(G), args |-> as]
IndirectCall(T, as) == [callee |-> NoFunc, ftype |-> T, args |-> as]

\* The call instructions enumerated: every direct call and every indirect
\* call without arguments, calls of bar passing a function, and calls
\* through a pointer of a type no function has passing any one argument.
CallSites ==
    {DirectCall(G, <<>>) : G \in Funcs}
    \cup {IndirectCall(T, <<>>) : T \in CalledTypes}
    \cup {DirectCall("bar", <<FnArg(G)>>) : G \in Funcs \ {"main"}}
    \cup {IndirectCall("i8*(i8*)", <<a>>) : a \in ArgValues}

\* A module is built from a list of placements <<host, call>>: the body of
\* a function is the list of the calls placed in it, in order.
Placements == Funcs \X CallSites

RECURSIVE BodyOf(_, _)
BodyOf(ps, F) ==
    IF ps = <<>> THEN <<>>
    ELSE IF Head(ps)[1] = F THEN <<Head(ps)[2]>> \o BodyOf(Tail(ps), F)
    ELSE BodyOf(Tail(ps), F)

PlacementLists == UNION {[1..n -> Placements] : n \in 0..MaxSites}

\* The functions a placement list puts calls in, and those it names.
Hosts(ps) == {ps[i][1] : i \in DOMAIN ps}
Mentioned(ps) ==
    (Hosts(ps) \cup {ps[i][2].callee : i \in DOMAIN ps}
       \cup UNION {{ps[i][2].args[j].fn : j \in DOMAIN ps[i][2].args} : i \in DOMAIN ps})
    \ {NoFunc}

\* functions: the functions of the module, with or without a main; decl:
\* those that are declarations (isDeclaration()); body: the calls of each
\* function.  A declaration has no body, and every function a call names is
\* a function of the module.
IsModuleOf(M, ps) ==
    \E fs \in {Funcs, Funcs \ {"main"}} :
       /\ Mentioned(ps) \subseteq fs
       /\ \E d \in SUBSET (fs \ Hosts(ps)) :
            M = [functions |-> fs, decl |-> d, body |-> [F \in Funcs |-> BodyOf(ps, F)]]

WellFormed(M) ==
    /\ M.decl \subseteq M.functions
    /\ \A F \in Funcs : (F \in M.decl \/ F \notin M.functions) => M.body[F] = <<>>
    /\ \A F \in Funcs : \A i \in 1..Len(M.body[F]) :
          LET cs == M.body[F][i]
          IN /\ cs.callee \in M.functions \cup {NoFunc}
             /\ \A j \in 1..Len(cs.args) : cs.args[j].fn \in M.functions \cup {NoFunc}

\* F.isDeclaration()
isDeclaration(M, F) == F \in M.decl

\* M.getFunction("main")
getFunction(M, name) == IF name \in M.functions THEN name ELSE NoFunc

\* The edges of F's llvm::CallGraphNode, as callNode->begin()..end() yields
\* them: one per call instruction in order, to the callee's node for a
\* direct call and to the external node (function NoFunc) otherwise.
CallGraphNode(M, F) ==
    IF F = NoFunc THEN <<>>
    ELSE [i \in 1..Len(M.body[F]) |-> M.body[F][i].callee]

(***************************************************************************)
(* The pure parts of ReachableFunctions                                    *)
(***************************************************************************)

\* collect_function_types: every function of the module, keyed by its
\* function type.  The map has a key only for the types some function has.
collect_function_types(M) ==
    [T \in {getFunctionType(F) : F \in M.functions} |->
        {F \in M.functions : getFunctionType(F) = T}]

\* get_indirect_called_functions with the test of line 134 inverted.
get_indirect_called_inverted(callInst, types) ==
    IF callInst.callee = NoFunc THEN {}
    ELSE IF callInst.ftype \notin DOMAIN types THEN {}
    ELSE types[callInst.ftype]

\* get_indirect_called_functions without the test of line 139: a type that
\* is not a key yields whatever the map holds.
get_indirect_called_unchecked(callInst, types) ==
    IF callInst.callee # NoFunc THEN {}
    ELSE IF callInst.ftype \notin DOMAIN types THEN UNION {types[T] : T \in DOMAIN types}
    ELSE types[callInst.ftype]

\* get_indirect_called_functions: nothing for a call with a static callee;
\* otherwise the functions indexed under the call's function type.
get_indirect_called_functions(callInst, types) ==
    IF callInst.callee # NoFunc THEN {}
    ELSE IF callInst.ftype \notin DOMAIN types THEN {}
    ELSE types[callInst.ftype]

\* The loop of get_functions_from_arguments without its first branch.
ArgumentCallbacks_TypedOnly(arg, types) ==
    IF arg.fty # NoType /\ arg.fty \in DOMAIN types THEN types[arg.fty]
    ELSE {}

\* The loop of get_functions_from_arguments without its second branch.
ArgumentCallbacks_FunctionOnly(arg, types) ==
    IF arg.fn # NoFunc THEN {arg.fn} ELSE {}

\* One iteration of the loop of get_functions_from_arguments.
ArgumentCallbacks(arg, types) ==
    IF arg.fn # NoFunc THEN {arg.fn}
    ELSE IF arg.fty # NoType /\ arg.fty \in DOMAIN types THEN types[arg.fty]
    ELSE {}

\* get_functions_from_arguments
get_functions_from_arguments(callInst, types) ==
    UNION {ArgumentCallbacks(callInst.args[i], types) : i \in 1..Len(callInst.args)}

\* collect_indirectly_called_functions: the union, over the call and invoke
\* instructions of F, of both sets above.
collect_indirectly_called_functions(M, F, types) ==
    UNION {get_indirect_called_functions(M.body[F][i], types)
             \cup get_functions_from_arguments(M.body[F][i], types) :
           i \in 1..Len(M.body[F])}

\* collect_reachable_functions without the return of lines 63-65.
Visits_NoRevisitGuard(M, nodeF, out) ==
    /\ nodeF # NoFunc
    /\ ~isDeclaration(M, nodeF)

\* collect_reachable_functions without the test for a declaration of
\* line 60.
Visits_NoDeclarationTest(M, nodeF, out) ==
    /\ nodeF # NoFunc
    /\ nodeF \notin out

\* The three early returns of collect_reachable_functions: a null node, a
\* node without a function or with a declaration, a function already in
\* the output set.  TRUE when the call inserts nodeF and walks its edges.
Visits(M, nodeF, out) ==
    /\ nodeF # NoFunc
    /\ ~isDeclaration(M, nodeF)
    /\ nodeF \notin out

\* The orders in which a FunctionSet can be iterated.
IterationOrders(S) ==
    {p \in [1..Cardinality(S) -> S] : \A i, j \in 1..Cardinality(S) : p[i] = p[j] => i = j}

\* Line 90 left out.
push_back_lost(list, F) == list

\* working_list.push_back
push_back(list, F) == Append(list, F)

\* Lines 93-97 left out, and lines 93-97 assigning instead of inserting.
InsertReachables_Skipped(reachable, reachables) == reachable
InsertReachables_Assigned(reachable, reachables) == reachables

\* Lines 93-97 keeping only what the last walk added.
InsertReachables_OnlyNew(reachable, reachables) == reachables \ reachable

\* Lines 93-97: every function of reachables goes into reachable_functions.
InsertReachables(reachable, reachables) == reachable \cup reachables

\* Lines 94-95 pushing nothing.
NewlyInserted_None(reachable, reachables) == {}

\* Lines 94-95 pushing every function of reachables, new or not.
NewlyInserted_Any(reachable, reachables) == reachables

\* Lines 94-95: the functions of reachables that are pushed, being new.
NewlyInserted(reachable, reachables) == reachables \ reachable

\* processed_functions kept from one run of the work list to the next.
StaleProcessed(old) == old

\* Line 77: processed_functions is a local of each run of the work list.
NewProcessed(old) == {}

\* Line 82 looking F up in processed_functions without inserting it.
MarkProcessed_Forgotten(processed, F) == processed

\* Line 82: processed_functions.insert(F).
MarkProcessed(processed, F) == processed \cup {F}

\* Line 88 leaving the loop over the candidates instead of continuing it.
AfterKnownCandidate_Break(candidates, indirectF) == {}

\* Lines 87-89: a candidate already reachable is passed over, and the loop
\* goes on with the candidates that remain.
AfterKnownCandidate(candidates, indirectF) == candidates \ {indirectF}

\* A pass that erased the bodies of the functions it found unreachable.
ModuleAfterPass_Stripped(M, reachable) ==
    [M EXCEPT !.body = [F \in Funcs |-> IF F \in reachable THEN M.body[F] ELSE <<>>]]

\* Lines 190 and 193-197: runOnModule returns false and the pass preserves
\* all analyses; nothing of lines 27-191 writes to the module or to the call
\* graph.
ModuleAfterPass(M, reachable) == M

MainMissing_Unchecked(mainF) == FALSE

\* Line 171: main was not found.
MainMissing(mainF) == mainF = NoFunc

(***************************************************************************)
(* The state                                                               *)
(***************************************************************************)
VARIABLES
    m_module,             \* the module (and its call graph): never written
    pc,                   \* where the pass is
    entry,                \* F of the running getReachableFunctions
    functionTypes,        \* the signature index of the running query
    reachable_functions,  \* the result under construction
    stack,                \* the frames of collect_reachable_functions
    working_list,         \* the work queue
    processed_functions,  \* functions whose calls were scanned
    F_cur,                \* the function popped from the queue
    indirectly_called,    \* candidates of F_cur not yet iterated
    reachables,           \* the output set of the walk from a candidate
    returned,             \* what getReachableFunctions returned, if it has
    previous,             \* what the query before the running one returned
    dbgs,                 \* the lines written to llvm::dbgs()
    parked                \* the locals of a second call in flight, if any

vars == <<m_module, pc, entry, functionTypes, reachable_functions, stack,
          working_list, processed_functions, F_cur, indirectly_called,
          reachables, returned, previous, dbgs, parked>>

\* returned and previous hold no set (nothing was returned), or the one set
\* that was returned.
NoResult == {}
Result(S) == {S}

\* The deepest recursion of collect_reachable_functions that the process
\* stack holds: one frame more than there are functions.
StackLimit == Cardinality(Funcs) + 1

\* No second call of getReachableFunctions is in flight.
NoLocals == <<>>

Init ==
    /\ \E ps \in PlacementLists : IsModuleOf(m_module, ps)
    /\ pc = "start"
    /\ entry = NoFunc
    /\ functionTypes = <<>>
    /\ reachable_functions = {}
    /\ stack = <<>>
    /\ working_list = <<>>
    /\ processed_functions = {}
    /\ F_cur = NoFunc
    /\ indirectly_called = {}
    /\ reachables = {}
    /\ returned = NoResult
    /\ previous = NoResult
    /\ dbgs = {}
    /\ parked = NoLocals

(***************************************************************************)
(* The operations                                                          *)
(***************************************************************************)

\* A call collect_reachable_functions(node, out) up to the start of its
\* loop: the frames and the output set after it.
EnterNode(M, frames, out, nodeF) ==
    IF Visits(M, nodeF, out)
    THEN [stack |-> Append(frames, [node |-> nodeF, it |-> 1]), out |-> out \cup {nodeF}]
    ELSE [stack |-> frames, out |-> out]

\* One step of the innermost frame of collect_reachable_functions: the
\* recursive call on the next edge of the node (lines 66-68), or the return
\* once the edges are exhausted.
WalkStep(M, frames, out) ==
    LET top == frames[Len(frames)]
        edges == CallGraphNode(M, top.node)
    IN IF top.it > Len(edges)
       THEN [stack |-> SubSeq(frames, 1, Len(frames) - 1), out |-> out]
       ELSE EnterNode(M, [frames EXCEPT ![Len(frames)].it = top.it + 1], out, edges[top.it])

\* getReachableFunctions(F), lines 30-36: fresh locals, the signature index,
\* and the call of collect_reachable_functions on F's call-graph node.
BeginQuery(F) ==
    LET w == EnterNode(m_module, <<>>, {}, F)
    IN /\ entry' = F
       /\ functionTypes' = collect_function_types(m_module)
       /\ reachable_functions' = w.out
       /\ stack' = w.stack
       /\ working_list' = <<>>
       /\ F_cur' = NoFunc
       /\ indirectly_called' = {}
       /\ reachables' = {}
       /\ pc' = "collect"

\* runOnModule, lines 168-174, when the module has no main: the message,
\* and the pass returns.
runOnModule_NoMain ==
    /\ pc = "start"
    /\ MainMissing(getFunction(m_module, "main"))
    /\ dbgs' = dbgs \cup {<<"No function main">>}
    /\ pc' = "nomain"
    /\ UNCHANGED <<m_module, parked, entry, functionTypes, reachable_functions, stack,
                   working_list, processed_functions, F_cur, indirectly_called,
                   reachables, returned, previous>>

\* runOnModule, line 175: the query from main.
runOnModule_Query ==
    /\ pc = "start"
    /\ ~MainMissing(getFunction(m_module, "main"))
    /\ BeginQuery(getFunction(m_module, "main"))
    /\ UNCHANGED <<m_module, parked, processed_functions, returned, previous, dbgs>>

\* collect_reachable_functions from the entry, one step.  A recursion
\* deeper than the process stack holds ends the process.
collect_reachable_functions ==
    /\ pc = "collect"
    /\ stack # <<>>
    /\ IF Len(stack) >= StackLimit
       THEN /\ pc' = "stack overflow"
            /\ UNCHANGED <<reachable_functions, stack>>
       ELSE LET w == WalkStep(m_module, stack, reachable_functions)
            IN /\ reachable_functions' = w.out
               /\ stack' = w.stack
               /\ pc' = pc
    /\ UNCHANGED <<m_module, parked, entry, functionTypes, working_list, processed_functions,
                   F_cur, indirectly_called, reachables, returned, previous, dbgs>>

\* collect_indirectly_reachable_functions, lines 75-77: the queue is seeded
\* with the reachable set, in the order the set iterates.
SeedWorkingList ==
    /\ pc = "collect"
    /\ stack = <<>>
    /\ working_list' \in IterationOrders(reachable_functions)
    /\ processed_functions' = NewProcessed(processed_functions)
    /\ pc' = "loop"
    /\ UNCHANGED <<m_module, parked, entry, functionTypes, reachable_functions, stack, F_cur,
                   indirectly_called, reachables, returned, previous, dbgs>>

\* Lines 79-85: pop the front; skip it if processed, else scan its calls.
PopFront ==
    /\ pc = "loop"
    /\ working_list # <<>>
    /\ working_list' = Tail(working_list)
    /\ F_cur' = Head(working_list)
    /\ IF Head(working_list) \in processed_functions
       THEN /\ UNCHANGED <<processed_functions, indirectly_called>>
            /\ pc' = "loop"
       ELSE /\ processed_functions' = MarkProcessed(processed_functions, Head(working_list))
            /\ indirectly_called' =
                 collect_indirectly_called_functions(m_module, Head(working_list), functionTypes)
            /\ pc' = "foreach"
    /\ UNCHANGED <<m_module, parked, entry, functionTypes, reachable_functions, stack,
                   reachables, returned, previous, dbgs>>

\* Lines 79-85 with any function of the queue taken in place of its front:
\* the processing orders other than first-in first-out.
PopAny ==
    /\ pc = "loop"
    /\ \E i \in 1..Len(working_list) :
         /\ working_list' = SubSeq(working_list, 1, i - 1)
                              \o SubSeq(working_list, i + 1, Len(working_list))
         /\ F_cur' = working_list[i]
         /\ IF working_list[i] \in processed_functions
            THEN /\ UNCHANGED <<processed_functions, indirectly_called>>
                 /\ pc' = "loop"
            ELSE /\ processed_functions' = MarkProcessed(processed_functions, working_list[i])
                 /\ indirectly_called' =
                      collect_indirectly_called_functions(m_module, working_list[i], functionTypes)
                 /\ pc' = "foreach"
    /\ UNCHANGED <<m_module, parked, entry, functionTypes, reachable_functions, stack,
                   reachables, returned, previous, dbgs>>

\* Lines 86-92: the next candidate, in the order the set iterates.  One
\* already reachable is skipped; a new one is inserted, pushed, and walked
\* into a fresh set.
NextCandidate ==
    /\ pc = "foreach"
    /\ \E indirectF \in indirectly_called :
         /\ IF indirectF \in reachable_functions
            THEN /\ indirectly_called' = AfterKnownCandidate(indirectly_called, indirectF)
                 /\ UNCHANGED <<reachable_functions, working_list, reachables, stack, pc>>
            ELSE LET w == EnterNode(m_module, <<>>, {}, indirectF)
                 IN /\ indirectly_called' = indirectly_called \ {indirectF}
                    /\ reachable_functions' = reachable_functions \cup {indirectF}
                    /\ working_list' = push_back(working_list, indirectF)
                    /\ reachables' = w.out
                    /\ stack' = w.stack
                    /\ pc' = "inner"
    /\ UNCHANGED <<m_module, parked, entry, functionTypes, processed_functions, F_cur,
                   returned, previous, dbgs>>

\* Line 92: collect_reachable_functions from the candidate, one step.
collect_reachable_inner ==
    /\ pc = "inner"
    /\ stack # <<>>
    /\ IF Len(stack) >= StackLimit
       THEN /\ pc' = "stack overflow"
            /\ UNCHANGED <<reachables, stack>>
       ELSE LET w == WalkStep(m_module, stack, reachables)
            IN /\ reachables' = w.out
               /\ stack' = w.stack
               /\ pc' = pc
    /\ UNCHANGED <<m_module, parked, entry, functionTypes, reachable_functions, working_list,
                   processed_functions, F_cur, indirectly_called, returned, previous, dbgs>>

\* Lines 93-97: what the walk reached is inserted, and pushed when new.
MergeReachables ==
    /\ pc = "inner"
    /\ stack = <<>>
    /\ \E order \in IterationOrders(NewlyInserted(reachable_functions, reachables)) :
         working_list' = working_list \o order
    /\ reachable_functions' = InsertReachables(reachable_functions, reachables)
    /\ reachables' = {}
    /\ pc' = "foreach"
    /\ UNCHANGED <<m_module, parked, entry, functionTypes, stack, processed_functions, F_cur,
                   indirectly_called, returned, previous, dbgs>>

\* Line 86, the candidates are exhausted: back to the head of the loop.
EndCandidates ==
    /\ pc = "foreach"
    /\ indirectly_called = {}
    /\ pc' = "loop"
    /\ UNCHANGED <<m_module, parked, entry, functionTypes, reachable_functions, stack,
                   working_list, processed_functions, F_cur, indirectly_called,
                   reachables, returned, previous, dbgs>>

\* Lines 79 and 39: the queue is empty, the set is returned.  In runOnModule
\* (lines 176-189) the listing of reachable and unreachable defined
\* functions follows.
ReturnReachable ==
    /\ pc = "loop"
    /\ working_list = <<>>
    /\ returned' = Result(reachable_functions)
    /\ dbgs' = dbgs
         \cup {<<"Function reachable from main are">>, <<"Non reachable functions">>}
         \cup {<<"+++", F>> : F \in reachable_functions}
         \cup {<<"---", F>> : F \in {G \in m_module.functions :
                   ~isDeclaration(m_module, G) /\ G \notin reachable_functions}}
    /\ m_module' = ModuleAfterPass(m_module, reachable_functions)
    /\ pc' = "done"
    /\ UNCHANGED <<parked, entry, functionTypes, reachable_functions, stack,
                   working_list, processed_functions, F_cur, indirectly_called,
                   reachables, previous>>

\* getReachableFunctions called once more on the same object, for the same
\* function, after it returned.
getReachableFunctions_Again ==
    /\ pc = "done"
    /\ previous = NoResult
    /\ previous' = returned
    /\ returned' = NoResult
    /\ BeginQuery(entry)
    /\ UNCHANGED <<m_module, parked, processed_functions, dbgs>>

Next ==
    \/ runOnModule_NoMain
    \/ runOnModule_Query
    \/ collect_reachable_functions
    \/ SeedWorkingList
    \/ PopFront
    \/ NextCandidate
    \/ collect_reachable_inner
    \/ MergeReachables
    \/ EndCandidates
    \/ ReturnReachable
    \/ getReachableFunctions_Again

\* The steps of a running query.  The computation is synchronous and
\* single-threaded: a query that was started keeps stepping.
Running ==
    \/ collect_reachable_functions
    \/ SeedWorkingList
    \/ PopFront
    \/ NextCandidate
    \/ collect_reachable_inner
    \/ MergeReachables
    \/ EndCandidates
    \/ ReturnReachable

Spec == Init /\ [][Next]_vars

\* The pass with the queue served in any order.
NextAnyOrder ==
    \/ runOnModule_NoMain
    \/ runOnModule_Query
    \/ collect_reachable_functions
    \/ SeedWorkingList
    \/ PopAny
    \/ NextCandidate
    \/ collect_reachable_inner
    \/ MergeReachables
    \/ EndCandidates
    \/ ReturnReachable
    \/ getReachableFunctions_Again

AnyOrderSpec == Init /\ [][NextAnyOrder]_vars

FairSpec == Spec /\ WF_vars(Running)

(***************************************************************************)
(* What the claims speak of, stated on the module alone                    *)
(***************************************************************************)

\* The functions with a body.
Defined(M) == M.functions \ M.decl

\* The call instructions of F.
CallsOf(M, F) == {M.body[F][i] : i \in 1..Len(M.body[F])}

\* The functions with a body that F calls directly.
DefinedCallees(M, F) == {cs.callee : cs \in CallsOf(M, F)} \cap Defined(M)

\* S is closed under direct calls of functions with a body.
DirectlyClosed(M, S) == \A F \in S : DefinedCallees(M, F) \subseteq S

\* The direct call-graph traversal from F: nothing when F has no body, else
\* the smallest directly closed set that holds F.
DirectSet(M, F) ==
    IF F \notin Defined(M) THEN {}
    ELSE CHOOSE S \in SUBSET M.functions :
            /\ F \in S
            /\ DirectlyClosed(M, S)
            /\ \A T \in SUBSET M.functions : (F \in T /\ DirectlyClosed(M, T)) => S \subseteq T

\* The functions an unresolved call of type T may reach by its signature.
SameSignature(M, T) == {G \in M.functions : getFunctionType(G) = T}

\* The indirect-target and callback-argument edges of F: the functions whose
\* signature is the called type of an unresolved call of F, the functions F
\* passes as an argument, and those whose signature is the type of a
\* function-typed argument.
IndirectEdges(M, F) ==
    UNION {(IF cs.callee = NoFunc THEN SameSignature(M, cs.ftype) ELSE {})
             \cup ({cs.args[j].fn : j \in 1..Len(cs.args)} \ {NoFunc})
             \cup UNION {IF cs.args[j].fn = NoFunc THEN SameSignature(M, cs.args[j].fty) ELSE {} :
                         j \in 1..Len(cs.args)} :
           cs \in CallsOf(M, F)}

\* S is closed under the direct, indirect-target and callback edges.
Closed(M, S) == \A F \in S : DefinedCallees(M, F) \cup IndirectEdges(M, F) \subseteq S

\* S is the smallest closed set that holds F.
SmallestClosed(M, F, S) ==
    /\ F \in S
    /\ Closed(M, S)
    /\ \A T \in SUBSET M.functions : (F \in T /\ Closed(M, T)) => S \subseteq T

(***************************************************************************)
(* Two calls of getReachableFunctions in flight                            *)
(***************************************************************************)

\* Total number of call instructions in a module two calls run over.
MaxSitesTwoCalls == 1

TwoCallsPlacementLists == UNION {[1..n -> Placements] : n \in 0..MaxSitesTwoCalls}

\* The frame of the running call of getReachableFunctions: where it is, its
\* argument, its locals and those of the functions it calls, and what it
\* returned.
Locals ==
    [pc |-> pc, entry |-> entry, functionTypes |-> functionTypes,
     reachable_functions |-> reachable_functions, stack |-> stack,
     working_list |-> working_list, processed_functions |-> processed_functions,
     F_cur |-> F_cur, indirectly_called |-> indirectly_called,
     reachables |-> reachables, returned |-> returned]

\* The frame of a call getReachableFunctions(F) that has not run a step.
NotStarted(F) ==
    [pc |-> "call", entry |-> F, functionTypes |-> <<>>,
     reachable_functions |-> {}, stack |-> <<>>,
     working_list |-> <<>>, processed_functions |-> {},
     F_cur |-> NoFunc, indirectly_called |-> {},
     reachables |-> {}, returned |-> NoResult]

\* reachable_functions one object shared by the calls instead of the local
\* of line 30.
OwnFrame_SharedSet(saved, running) ==
    [saved EXCEPT !.reachable_functions = running.reachable_functions]

\* Lines 30-31, 77, 91: the reachable set, the signature index, the queue,
\* the processed set and the walked set are locals; a call that goes on
\* finds them as it left them, whatever the other call did.
OwnFrame(saved, running) == saved

\* The other call takes the next step.
Switch ==
    /\ pc # "stack overflow"
    /\ parked # NoLocals
    /\ parked.pc # "done"
    /\ parked' = Locals
    /\ LET frame == OwnFrame(parked, Locals)
       IN /\ pc' = frame.pc
          /\ entry' = frame.entry
          /\ functionTypes' = frame.functionTypes
          /\ reachable_functions' = frame.reachable_functions
          /\ stack' = frame.stack
          /\ working_list' = frame.working_list
          /\ processed_functions' = frame.processed_functions
          /\ F_cur' = frame.F_cur
          /\ indirectly_called' = frame.indirectly_called
          /\ reachables' = frame.reachables
          /\ returned' = frame.returned
    /\ UNCHANGED <<m_module, previous, dbgs>>

\* getReachableFunctions(entry) called by a client of the analysis.
getReachableFunctions_Call ==
    /\ pc = "call"
    /\ BeginQuery(entry)
    /\ UNCHANGED <<m_module, parked, processed_functions, returned, previous, dbgs>>

\* Lines 79 and 39: the queue is empty, the set is returned to the client.
getReachableFunctions_Return ==
    /\ pc = "loop"
    /\ working_list = <<>>
    /\ returned' = Result(reachable_functions)
    /\ pc' = "done"
    /\ UNCHANGED <<m_module, parked, entry, functionTypes, reachable_functions, stack,
                   working_list, processed_functions, F_cur, indirectly_called,
                   reachables, previous, dbgs>>

\* Two calls for two different functions of one module, none started.
InitTwoCalls ==
    /\ \E ps \in TwoCallsPlacementLists : IsModuleOf(m_module, ps)
    /\ \E F \in m_module.functions : \E G \in m_module.functions \ {F} :
          entry = F /\ parked = NotStarted(G)
    /\ pc = "call"
    /\ functionTypes = <<>>
    /\ reachable_functions = {}
    /\ stack = <<>>
    /\ working_list = <<>>
    /\ processed_functions = {}
    /\ F_cur = NoFunc
    /\ indirectly_called = {}
    /\ reachables = {}
    /\ returned = NoResult
    /\ previous = NoResult
    /\ dbgs = {}

NextTwoCalls ==
    \/ getReachableFunctions_Call
    \/ collect_reachable_functions
    \/ SeedWorkingList
    \/ PopFront
    \/ NextCandidate
    \/ collect_reachable_inner
    \/ MergeReachables
    \/ EndCandidates
    \/ getReachableFunctions_Return
    \/ Switch

TwoCallsSpec == InitTwoCalls /\ [][NextTwoCalls]_vars

(***************************************************************************)
(* Claims                                                                  *)
(***************************************************************************)

\* The model's types: a module of the family, and the query's locals over
\* the functions of the module.
TypeOK ==
    /\ WellFormed(m_module)
    /\ reachable_functions \subseteq m_module.functions
    /\ processed_functions \subseteq m_module.functions
    /\ Len(stack) < StackLimit
    /\ pc \in {"start", "nomain", "collect", "loop", "foreach", "inner", "done"}

\* C1: no function lacking a body is in the set getReachableFunctions
\* returns.
C1_NoDeclarationReturned ==
    \A S \in returned : \A F \in S : ~isDeclaration(m_module, F)

\* C2: for every function F of the returned set and every call of F without
\* a static callee, every function with a body whose signature is the
\* called type is in the returned set.
C2_IndirectClosure ==
    \A S \in returned : \A F \in S : \A cs \in CallsOf(m_module, F) :
        cs.callee = NoFunc =>
            \A G \in Defined(m_module) : getFunctionType(G) = cs.ftype => G \in S

\* C2 happens: a set was returned that holds, for an unresolved call of one
\* of its functions, a same-signature function that direct calls from main
\* do not reach.
C2_Witness ==
    \E S \in returned : \E F \in S : \E cs \in CallsOf(m_module, F) :
        /\ cs.callee = NoFunc
        /\ \E G \in Defined(m_module) :
             /\ getFunctionType(G) = cs.ftype
             /\ G \in S
             /\ G \notin DirectSet(m_module, entry)

C5_SupersetOfDirect ==
    /\ (pc = "collect" /\ stack = <<>>) =>
          reachable_functions = DirectSet(m_module, entry)
    /\ \A S \in returned : DirectSet(m_module, entry) \subseteq S

\* C5 happens: a returned set holds more than the direct traversal, which
\* holds more than the entry.
C5_Witness ==
    \E S \in returned :
        /\ DirectSet(m_module, entry) # S
        /\ DirectSet(m_module, entry) # {entry}
        /\ DirectSet(m_module, entry) # {}

\* C6: every query that was started returns, whatever cycles the direct
\* and indirect edges form.
C6_Termination == (pc = "collect") ~> (pc = "done")

\* C6 happens: a query returned a set in which two functions call each
\* other.
C6_Witness ==
    \E S \in returned : \E F \in S : \E G \in S \ {F} :
        F \in DefinedCallees(m_module, G) /\ G \in DefinedCallees(m_module, F)

\* C7: every function that a call of a function of the returned set passes
\* as an argument is in the returned set, with the direct call-graph
\* traversal from it.
C7_CallbackArguments ==
    \A S \in returned : \A F \in S : \A cs \in CallsOf(m_module, F) :
        \A j \in 1..Len(cs.args) :
            cs.args[j].fn # NoFunc =>
                /\ cs.args[j].fn \in S
                /\ DirectSet(m_module, cs.args[j].fn) \subseteq S

\* C7 happens: a call with a static callee passes a function G that the
\* direct walk from main does not reach, G calls another such function, and
\* both are returned.
C7_Witness ==
    \E S \in returned : \E F \in S : \E cs \in CallsOf(m_module, F) :
        \E j \in 1..Len(cs.args) :
            LET G == cs.args[j].fn
            IN /\ G # NoFunc
               /\ cs.callee # NoFunc
               /\ G \notin DirectSet(m_module, entry)
               /\ DirectSet(m_module, G) \ ({G} \cup DirectSet(m_module, entry)) # {}
               /\ DirectSet(m_module, G) \subseteq S

\* C8: a second getReachableFunctions on the unmodified module returns the
\* set the first returned.
C8_SameSetTwice ==
    (previous # NoResult /\ returned # NoResult) => returned = previous

\* C8 happens: two queries returned, and the work list added to the direct
\* traversal in both.
C8_Witness ==
    /\ previous # NoResult
    /\ returned = previous
    /\ \E S \in returned : S # DirectSet(m_module, entry)

\* C9: in a module without main the pass writes the message and stops: no
\* query is started and no set is built or returned.
C9_NoEntry ==
    getFunction(m_module, "main") = NoFunc =>
        /\ pc \in {"start", "nomain"}
        /\ pc = "nomain" => dbgs = {<<"No function main">>}
        /\ entry = NoFunc
        /\ reachable_functions = {}
        /\ returned = NoResult
        /\ previous = NoResult

\* C9 happens: the pass ended on a module that has functions and calls but
\* no main.
C9_Witness ==
    /\ pc = "nomain"
    /\ m_module.body["foo"] # <<>>

\* An unresolved call that reaches nothing: no function has its called
\* type, and its arguments (if any) name no function and no function type
\* that a function has.
Unmatched(M, cs) ==
    /\ cs.callee = NoFunc
    /\ SameSignature(M, cs.ftype) = {}
    /\ \A j \in 1..Len(cs.args) :
          cs.args[j].fn = NoFunc /\ SameSignature(M, cs.args[j].fty) = {}

\* M without the unresolved calls that reach nothing.
WithoutUnmatched(M) ==
    LET Keep(cs) == ~Unmatched(M, cs)
    IN [M EXCEPT !.body = [F \in Funcs |-> SelectSeq(M.body[F], Keep)]]

\* The set C4 gives for a module: the smallest closed set that holds F, or
\* nothing when F has no body.
ClosureFrom(M, F) ==
    IF F \notin Defined(M) THEN {}
    ELSE CHOOSE S \in SUBSET M.functions : SmallestClosed(M, F, S)

C12_IndexOfDefinedFunctions ==
    \A T \in DOMAIN functionTypes :
        functionTypes[T] = {F \in Defined(m_module) : getFunctionType(F) = T}

\* An argument whose type is the function type T and that is no function.
IsTypedArg(arg) == arg.fn = NoFunc /\ arg.fty # NoType

\* M without the function-typed arguments whose type no function has.
WithoutAbsentTypedArgs(M) ==
    LET Keep(arg) == ~(IsTypedArg(arg) /\ SameSignature(M, arg.fty) = {})
    IN [M EXCEPT !.body = [F \in Funcs |->
            [i \in 1..Len(M.body[F]) |->
                [M.body[F][i] EXCEPT !.args = SelectSeq(M.body[F][i].args, Keep)]]]]

\* C13: for every call of a function of the returned set and every
\* argument of it that is no function but has a function type, the
\* functions indexed under that type are in the returned set; and the
\* returned set is that of the module without the arguments whose type is
\* not in the index.
C13_FunctionTypedArgument ==
    \A S \in returned :
        /\ \A F \in S : \A cs \in CallsOf(m_module, F) : \A j \in 1..Len(cs.args) :
              IsTypedArg(cs.args[j]) =>
                  /\ cs.args[j].fty \in DOMAIN functionTypes =>
                        functionTypes[cs.args[j].fty] \subseteq S
                  /\ SameSignature(m_module, cs.args[j].fty) \subseteq S
        /\ S = ClosureFrom(WithoutAbsentTypedArgs(m_module), entry)

\* C13 happens: a returned set holds a function that only the type of an
\* argument of a call leads to.
C13_Witness ==
    \E S \in returned : \E F \in S : \E cs \in CallsOf(m_module, F) :
        \E j \in 1..Len(cs.args) :
            /\ IsTypedArg(cs.args[j])
            /\ \E G \in SameSignature(m_module, cs.args[j].fty) :
                  G \in S /\ G \notin DirectSet(m_module, entry)
            /\ Cardinality(UNION {CallsOf(m_module, H) : H \in Funcs}) = 1

\* A step that scans the call sites of F: the call of
\* collect_indirectly_called_functions at line 85.
Scans(F) == pc = "loop" /\ pc' = "foreach" /\ F_cur' = F

\* The steps of one run of collect_indirectly_reachable_functions start here.
InWorkList == pc \in {"loop", "foreach", "inner"}

\* C14: within one run of the work list a function is scanned only when it
\* is not in processed_functions, the scan puts it there, and nothing leaves
\* processed_functions: no function is scanned twice.
C14_ScannedAtMostOnce ==
    [][/\ \A F \in Funcs :
             Scans(F) => F \notin processed_functions /\ F \in processed_functions'
       /\ InWorkList => processed_functions \subseteq processed_functions']_vars

\* C14 happens: a function that was scanned earlier in the run comes up
\* again, as a candidate of the function being scanned.
C14_Witness ==
    /\ pc = "foreach"
    /\ \E indirectF \in indirectly_called :
          indirectF \in processed_functions /\ indirectF # F_cur

\* C15: no step of the direct walk or of the work list takes a function out
\* of reachable_functions.
C15_MonotoneGrowth ==
    [][(pc \in {"collect", "loop", "foreach", "inner"})
          => (reachable_functions \subseteq reachable_functions')]_vars

\* C15 happens: the work list has added to what the direct walk collected.
C15_Witness ==
    /\ pc = "foreach"
    /\ DirectSet(m_module, entry) \subseteq reachable_functions
    /\ Cardinality(reachable_functions \ DirectSet(m_module, entry)) >= 2

\* C16: no step changes the module or its call graph.
C16_ModuleUnchanged == [][m_module = m_module']_vars

\* C16 happens: the pass has ended on a module that holds a function with
\* calls in its body that the query did not reach.
C16_Witness ==
    /\ pc = "done"
    /\ \E S \in returned : \E F \in Defined(m_module) \ S : m_module.body[F] # <<>>

\* The functions the queue holds.
Queued == {working_list[i] : i \in 1..Len(working_list)}

\* C18: at every step of the loop of the work list the reachable set is
\* what was processed together with what is queued; with the queue empty
\* it is what was processed.
C18_WorkListCoverage ==
    InWorkList =>
        /\ reachable_functions = processed_functions \cup Queued
        /\ working_list = <<>> => processed_functions = reachable_functions

\* C18 happens: the queue has run empty after functions were pushed on it
\* that the direct walk had not collected.
C18_Witness ==
    /\ pc = "loop"
    /\ working_list = <<>>
    /\ processed_functions = reachable_functions
    /\ reachable_functions \ DirectSet(m_module, entry) # {}

C20_NoDuplicateEnqueue ==
    /\ \A i, j \in 1..Len(working_list) : working_list[i] = working_list[j] => i = j
    /\ Queued \cap processed_functions = {}

\* C20 happens: the queue holds a seed and a function pushed by the loop.
C20_Witness ==
    /\ pc = "foreach"
    /\ Queued \cap DirectSet(m_module, entry) # {}
    /\ Queued \ DirectSet(m_module, entry) # {}

\* C11: whatever the order in which the queue is served and the sets are
\* iterated, the set returned is the one set the module and the entry
\* determine, and two queries of the same entry return equal sets.
C11_OrderIndependence ==
    /\ \A S \in returned : S = ClosureFrom(m_module, entry)
    /\ \A S \in previous : S = ClosureFrom(m_module, entry)
    /\ (previous # NoResult /\ returned # NoResult) => previous = returned

\* C11 happens: a query returned whose last scanned function is one of the
\* seeds although the loop had pushed functions behind the seeds, which
\* first-in first-out service never does.
C11_Witness ==
    /\ pc = "done"
    /\ F_cur \in DirectSet(m_module, entry)
    /\ \E S \in returned : S \ DirectSet(m_module, entry) # {}

\* C17: of two calls for different entries whose steps interleave, each
\* returns the set the module and its own entry determine, the one it
\* returns when the other call takes no step before it ends.
C17_IndependentQueries ==
    /\ \A S \in returned : S = ClosureFrom(m_module, entry)
    /\ parked # NoLocals =>
          \A S \in parked.returned : S = ClosureFrom(m_module, parked.entry)

\* C17 happens: both calls are inside their work-list loops, for different
\* entries and with different reachable sets, each having scanned a
\* function.
C17_Witness ==
    /\ parked # NoLocals
    /\ pc \in {"foreach", "inner"}
    /\ parked.pc \in {"foreach", "inner"}
    /\ entry # parked.entry
    /\ reachable_functions # parked.reachable_functions
    /\ reachable_functions # {} /\ parked.reachable_functions # {}

====
